---- MODULE Spec2Model ----
(***************************************************************************)
(* HoistAnticipatedExpressionsPass (src/HoistAnticipatedExpressions.cpp)   *)
(* as a state machine over one function's control-flow graph.              *)
(*                                                                         *)
(* Values: a positive integer is the result of the instruction with that   *)
(* id, a negative integer is a function argument.  The id of an            *)
(* instruction also stands for its address: std::set<Instruction *> and    *)
(* std::map<Instruction *, ...> iterate in address order, which is         *)
(* ascending id order when asc holds and descending id order otherwise.    *)
(* All values have the same scalar type and no instruction carries         *)
(* optional flags, so Instruction::isIdenticalTo compares opcode, callee   *)
(* and operand list.                                                       *)
(***************************************************************************)
EXTENDS Integers, Sequences, FiniteSets, TLC

\* Bounds of the generated input functions.
MaxInstr == 3
MaxKindInstr == 2
MaxJoinInstr == 1

VARIABLES cfg, body, inst, asc, erased,
          UseSets, DefSets, InSets, OutSets,
          pc, po, bf, status, body0, inst0, order

vars == <<cfg, body, inst, asc, erased, UseSets, DefSets, InSets, OutSets,
          pc, po, bf, status, body0, inst0, order>>

----------------------------------------------------------------------------
\* Generic helpers.

Range(s) == {s[k] : k \in 1..Len(s)}

Max(S) == CHOOSE x \in S : \A y \in S : y <= x

Min(S) == CHOOSE x \in S : \A y \in S : x <= y

RECURSIVE AddrSeq(_, _)
\* The members of a std::set<Instruction *> in iteration (address) order.
AddrSeq(S, up) ==
    IF S = {} THEN <<>>
    ELSE LET x == IF up THEN Min(S) ELSE Max(S)
         IN  <<x>> \o AddrSeq(S \ {x}, up)

RECURSIVE Concat(_, _)
Concat(f, bs) == IF bs = <<>> THEN <<>> ELSE f[Head(bs)] \o Concat(f, Tail(bs))

IsInst(v) == v > 0

----------------------------------------------------------------------------
\* The control-flow graph: g[b] is the successor list of block b, block 1 is
\* the entry block.

Blocks(g) == 1..Len(g)

Preds(g, b) == SelectSeq([k \in 1..Len(g) |-> k], LAMBDA p : b \in Range(g[p]))

RECURSIVE PoVisit(_, _, _)
RECURSIVE PoSuccs(_, _, _)
PoSuccs(g, ss, st) ==
    IF ss = <<>> THEN st
    ELSE IF Head(ss) \in st.seen THEN PoSuccs(g, Tail(ss), st)
         ELSE PoSuccs(g, Tail(ss), PoVisit(g, Head(ss), st))

PoVisit(g, b, st) ==
    LET st1 == PoSuccs(g, g[b], [st EXCEPT !.seen = @ \cup {b}])
    IN  [st1 EXCEPT !.out = Append(@, b)]

\* llvm::post_order(&F.getEntryBlock())
PostOrder(g) == PoVisit(g, 1, [seen |-> {}, out |-> <<>>]).out

RECURSIVE BfsNew(_, _)
BfsNew(ss, seen) ==
    IF ss = <<>> THEN <<>>
    ELSE IF Head(ss) \in seen THEN BfsNew(Tail(ss), seen)
         ELSE <<Head(ss)>> \o BfsNew(Tail(ss), seen \cup {Head(ss)})

RECURSIVE BfsLoop(_, _, _)
BfsLoop(g, queue, seen) ==
    IF queue = <<>> THEN <<>>
    ELSE LET n   == Head(queue)
             new == BfsNew(g[n], seen)
         IN  <<n>> \o BfsLoop(g, Tail(queue) \o new, seen \cup Range(new))

\* llvm::breadth_first(BB)
BreadthFirst(g, b) == BfsLoop(g, <<b>>, {b})

RECURSIVE ReachAvoid(_, _, _)
\* Blocks reached from the entry along paths that never enter block d.
ReachAvoid(g, d, R) ==
    LET R1 == R \cup {s \in Blocks(g) : s # d /\ \E p \in R : s \in Range(g[p])}
    IN  IF R1 = R THEN R ELSE ReachAvoid(g, d, R1)

Dominates(g, d, b) ==
    \/ d = b
    \/ d = 1
    \/ b \notin ReachAvoid(g, d, {1})

----------------------------------------------------------------------------
\* Instructions.

Live(bd) == UNION {Range(bd[b]) : b \in DOMAIN bd}

BlockOf(bd, i) == CHOOSE b \in DOMAIN bd : i \in Range(bd[b])

PosOf(s, i) == CHOOSE k \in 1..Len(s) : s[k] = i

\* Instruction::isIdenticalTo
isIdenticalTo(ins, i, j) ==
    /\ ins[i].op = ins[j].op
    /\ ins[i].callee = ins[j].callee
    /\ ins[i].ops = ins[j].ops
    /\ ins[i].op = "phi" => ins[i].inc = ins[j].inc

\* The callee attributes isFunctionPure reads.
Callee(name) ==
    CASE name = "sqrt"     -> [direct |-> TRUE,  retPtr |-> FALSE, argPtr |-> FALSE, lib |-> TRUE]
      [] name = "strlen"   -> [direct |-> TRUE,  retPtr |-> FALSE, argPtr |-> TRUE,  lib |-> TRUE]
      [] name = "strdup"   -> [direct |-> TRUE,  retPtr |-> TRUE,  argPtr |-> TRUE,  lib |-> TRUE]
      [] name = "userfn"   -> [direct |-> TRUE,  retPtr |-> FALSE, argPtr |-> FALSE, lib |-> FALSE]
      [] OTHER             -> [direct |-> FALSE, retPtr |-> FALSE, argPtr |-> FALSE, lib |-> FALSE]

\* isFunctionPure without the test of the argument types.
isFunctionPureNoArgTest(i) ==
    LET c == Callee(i.callee)
    IN  c.direct /\ ~c.retPtr /\ c.lib

isFunctionPure(i) ==
    LET c == Callee(i.callee)
    IN  IF ~c.direct THEN FALSE
        ELSE IF c.retPtr THEN FALSE
        ELSE IF c.argPtr THEN FALSE
        ELSE IF ~c.lib THEN FALSE
        ELSE TRUE

mayReadFromMemory(i) == i.op = "load"

mayHaveSideEffects(i) == i.op = "store"

isTerminator(i) == i.op \in {"br", "ret"}

isToBeIgnored(i) ==
    IF i.op = "alloca" THEN TRUE
    ELSE IF i.op = "call" THEN ~isFunctionPure(i)
    ELSE mayReadFromMemory(i) \/ mayHaveSideEffects(i) \/ isTerminator(i)

----------------------------------------------------------------------------
\* Set Builder and Anticipation Solver.

findUseSet(bd, ins, b) ==
    {i \in Range(bd[b]) : ~isToBeIgnored(ins[i]) /\ ins[i].op # "phi"}

\* findDefSet inserting the used instruction &I instead of its user.
findDefSetOfDefinitions(bd, ins, b) ==
    {i \in Range(bd[b]) : \E u \in Range(bd[b]) : i \in Range(ins[u].ops)}

findDefSet(bd, ins, b) ==
    UNION {{u \in Range(bd[b]) : i \in Range(ins[u].ops)} : i \in Range(bd[b])}

\* findInSet without the Def filter on the members of Use(B).
findInSetUnfilteredUse(ins, use, def, out) ==
    {i \in out : \A d \in def : ~isIdenticalTo(ins, i, d)} \cup use

findInSet(ins, use, def, out) ==
    {i \in out : \A d \in def : ~isIdenticalTo(ins, i, d)}
      \cup {i \in use : \A d \in def : ~isIdenticalTo(ins, i, d)}

\* One iteration of "for (auto *I : InSets[Succ])": t.count is the map count,
\* t.seen the keys k with seen[k] = true.
TallyOne(ins, t, i) ==
    LET hit == {k \in DOMAIN t.count : isIdenticalTo(ins, i, k) /\ k \notin t.seen}
    IN  IF hit # {}
        THEN [count |-> [k \in DOMAIN t.count |->
                            IF k \in hit THEN t.count[k] + 1 ELSE t.count[k]],
              seen  |-> t.seen \cup hit]
        ELSE [count |-> [k \in DOMAIN t.count \cup {i} |->
                            IF k = i THEN 1 ELSE t.count[k]],
              seen  |-> t.seen]

RECURSIVE TallyIn(_, _, _)
TallyIn(ins, t, is) ==
    IF is = <<>> THEN t ELSE TallyIn(ins, TallyOne(ins, t, Head(is)), Tail(is))

RECURSIVE TallySuccs(_, _, _, _, _)
\* "for (BasicBlock *Succ : successors(BB))" with a fresh seen map per successor.
TallySuccs(ins, in, up, count, ss) ==
    IF ss = <<>> THEN count
    ELSE TallySuccs(ins, in, up,
                    TallyIn(ins, [count |-> count, seen |-> {}],
                            AddrSeq(in[Head(ss)], up)).count,
                    Tail(ss))

findOutSet(ins, in, up, ss) ==
    LET count == TallySuccs(ins, in, up, <<>>, ss)
    IN  {k \in DOMAIN count : count[k] = Len(ss)}

----------------------------------------------------------------------------
\* Hoister.

\* The first instruction of block b identical to i, or 0 for nullptr.
checkBeforeMove(bd, ins, b, i) ==
    LET hits == {k \in 1..Len(bd[b]) : isIdenticalTo(ins, bd[b][k], i)}
    IN  IF hits = {} THEN 0 ELSE bd[b][Min(hits)]

\* A move to the end of the block, behind the terminator.
moveToEnd(bd, b, i) ==
    [c \in DOMAIN bd |->
        IF c = b THEN SelectSeq(bd[c], LAMBDA j : j # i) \o <<i>>
        ELSE SelectSeq(bd[c], LAMBDA j : j # i)]

\* Instruction::moveBefore(BB->getTerminator())
moveBefore(bd, b, i) ==
    LET cut == [c \in DOMAIN bd |-> SelectSeq(bd[c], LAMBDA j : j # i)]
        n   == Len(cut[b])
    IN  [cut EXCEPT ![b] = SubSeq(@, 1, n - 1) \o <<i>> \o SubSeq(@, n, n)]

\* A Hoister that marks the duplicate without redirecting its uses.
replaceNoUses(ins, from, to) == ins

\* Value::replaceAllUsesWith
replaceAllUsesWith(ins, from, to) ==
    [u \in DOMAIN ins |->
        [ins[u] EXCEPT !.ops = [k \in DOMAIN @ |-> IF @[k] = from THEN to ELSE @[k]]]]

\* Whether the scan of the blocks reachable from BB redirects and marks I.
ScanHit(ins, i, canon) == isIdenticalTo(ins, i, canon) /\ i # canon

RECURSIVE Scan(_, _, _, _)
\* "for (BasicBlock *Succ : breadth_first(BB)) for (Instruction &I : *Succ)"
Scan(ins, del, canon, list) ==
    IF list = <<>> THEN [inst |-> ins, del |-> del]
    ELSE IF ScanHit(ins, Head(list), canon)
         THEN Scan(replaceAllUsesWith(ins, Head(list), canon),
                   del \cup {Head(list)}, canon, Tail(list))
         ELSE Scan(ins, del, canon, Tail(list))

\* The body of "for (auto *Orig : OutSets[BB])" for one candidate.
HoistOne(g, st, b, orig) ==
    LET existing == checkBeforeMove(st.body, st.inst, b, orig)
        canon    == IF existing # 0 THEN existing ELSE orig
        bd1      == IF existing # 0 THEN st.body ELSE moveBefore(st.body, b, orig)
        sc       == Scan(st.inst, st.del, canon, Concat(bd1, BreadthFirst(g, b)))
    IN  [body |-> bd1, inst |-> sc.inst, del |-> sc.del]

RECURSIVE HoistAll(_, _, _, _)
HoistAll(g, st, b, cands) ==
    IF cands = <<>> THEN st
    ELSE HoistAll(g, HoistOne(g, st, b, Head(cands)), b, Tail(cands))

\* "for (auto *I : ToDelete) I->eraseFromParent()": the instruction leaves its
\* block and drops its own operand references.
eraseFromParent(st) ==
    [body |-> [c \in DOMAIN st.body |-> SelectSeq(st.body[c], LAMBDA j : j \notin st.del)],
     inst |-> [u \in DOMAIN st.inst |->
                 IF u \in st.del THEN [st.inst[u] EXCEPT !.ops = <<>>] ELSE st.inst[u]],
     del  |-> st.del]

\* Changed starting out true.
HoistChangedAlways(out) == TRUE

\* Changed never set.
HoistChangedNever(out) == FALSE

\* The value of Changed that hoistInstructions returns.
HoistChanged(out) == out # {}

hoistInstructions(g, bd, ins, up, b, out) ==
    eraseFromParent(HoistAll(g, [body |-> bd, inst |-> ins, del |-> {}], b,
                             AddrSeq(out, up)))

----------------------------------------------------------------------------
\* Well-formed input: every use of an instruction result is preceded by its
\* definition in the same block or sits in a block dominated by the defining
\* block; a phi operand is checked at the end of its incoming block.

DefBeforeUse(g, bd, ins) ==
    \A u \in Live(bd) : \A k \in 1..Len(ins[u].ops) :
        LET v == ins[u].ops[k]
        IN  IsInst(v) =>
              /\ v \in Live(bd)
              /\ IF ins[u].op = "phi"
                 THEN Dominates(g, BlockOf(bd, v), ins[u].inc[k])
                 ELSE LET bu == BlockOf(bd, u)
                          bv == BlockOf(bd, v)
                      IN  IF bu = bv THEN PosOf(bd[bu], v) < PosOf(bd[bu], u)
                          ELSE Dominates(g, bv, bu)

MkInst(op, callee, ops, inc) == [op |-> op, callee |-> callee, ops |-> ops, inc |-> inc]

\* The terminator of block b: a return of value r, a conditional branch on an
\* argument, or an unconditional branch.
MkTerm(g, b, r) ==
    IF g[b] = <<>> THEN MkInst("ret", "", <<r>>, <<>>)
    ELSE IF Len(g[b]) > 1 THEN MkInst("br", "", <<-3>>, <<>>)
    ELSE MkInst("br", "", <<>>, <<>>)

\* Control-flow graphs of the generated functions.
Pair     == <<<<2>>, <<>>>>
Chain    == <<<<2>>, <<3>>, <<>>>>
Triangle == <<<<2, 3>>, <<3>>, <<>>>>
Diamond  == <<<<2, 3>>, <<4>>, <<4>>, <<>>>>
SelfLoop == <<<<2>>, <<2, 3>>, <<>>>>
Loop     == <<<<2>>, <<3>>, <<2, 4>>, <<>>>>

Shapes == {Chain, Triangle, Diamond, SelfLoop, Loop}

RECURSIVE SumLen(_, _)
SumLen(lists, n) == IF n = 0 THEN 0 ELSE Len(lists[n]) + SumLen(lists, n - 1)

\* The function whose block b holds the instructions lists[b], in that order,
\* followed by its terminator; ids are given block by block.
FromBlocks(g, lists, r, up) ==
    LET k == SumLen(lists, Len(g))
    IN  [cfg  |-> g,
         body |-> [b \in Blocks(g) |->
                     [n \in 1..Len(lists[b]) |-> SumLen(lists, b - 1) + n] \o <<k + b>>],
         inst |-> [i \in 1..(k + Len(g)) |->
                     IF i > k THEN MkTerm(g, i - k, r)
                     ELSE LET b == CHOOSE c \in Blocks(g) :
                                     SumLen(lists, c - 1) < i /\ i <= SumLen(lists, c)
                          IN  lists[b][i - SumLen(lists, b - 1)]],
         asc  |-> up]

\* General family: k relocatable binary operations "add x, %b" (x is %a or
\* an earlier instruction) spread over the blocks of a graph.
GenProgram(g, k, blk, x, r, up) ==
    FromBlocks(g,
               [b \in Blocks(g) |->
                  LET ids == SelectSeq([i \in 1..k |-> i], LAMBDA i : blk[i] = b)
                  IN  [n \in 1..Len(ids) |-> MkInst("add", "", <<x[ids[n]], -2>>, <<>>)]],
               r, up)

\* Instruction kinds the Purity Classifier tells apart; x is the scalar
\* operand, -4 a pointer argument.
Kinds == {"add", "load", "store", "alloca", "phi",
          "sqrt", "strlen", "strdup", "userfn", "indirect"}

KindInst(kind, x) ==
    CASE kind = "add"    -> MkInst("add", "", <<x, -2>>, <<>>)
      [] kind = "load"   -> MkInst("load", "", <<-4>>, <<>>)
      [] kind = "store"  -> MkInst("store", "", <<x, -4>>, <<>>)
      [] kind = "alloca" -> MkInst("alloca", "", <<>>, <<>>)
      [] kind = "phi"    -> MkInst("phi", "", <<x>>, <<1>>)
      [] kind \in {"strlen", "strdup"} -> MkInst("call", kind, <<-4>>, <<>>)
      [] OTHER           -> MkInst("call", kind, <<x>>, <<>>)

\* Kind family: k instructions of any kind in a two-block function.
KindProgram(k, cut, kind, x, up) ==
    FromBlocks(Pair,
               <<[n \in 1..cut |-> KindInst(kind[n], x[n])],
                 [n \in 1..(k - cut) |-> KindInst(kind[cut + n], x[cut + n])]>>,
               -1, up)

\* Diamond family: L and R each compute "add %a, %b"; the entry holds ne more
\* instances, L may store its result, the join may merge the two results in
\* a phi and holds nj more operations, each on %a or on the phi.
DiamondProgram(ne, st, phi, jx, r, up) ==
    LET x1 == ne + 1
        x2 == x1 + (IF st THEN 2 ELSE 1)
        ab == MkInst("add", "", <<-1, -2>>, <<>>)
    IN  FromBlocks(Diamond,
                   <<[n \in 1..ne |-> ab],
                     <<ab>> \o (IF st THEN <<MkInst("store", "", <<x1, -4>>, <<>>)>> ELSE <<>>),
                     <<ab>>,
                     (IF phi THEN <<MkInst("phi", "", <<x1, x2>>, <<2, 3>>)>> ELSE <<>>)
                       \o [n \in 1..Len(jx) |->
                             MkInst("add", "", <<IF jx[n] THEN x2 + 1 ELSE -1, -2>>, <<>>)]>>,
                   IF r = 0 THEN -1 ELSE x2 + r, up)

\* Operands are scalars: results of stores, allocas, pointer-returning calls
\* and terminators are never operands.
WellTyped(ins) ==
    \A u \in DOMAIN ins : \A v \in Range(ins[u].ops) :
        IsInst(v) => /\ ins[v].op \notin {"store", "alloca", "br", "ret"}
                     /\ ins[v].callee # "strdup"

\* Phis lead their block and name the predecessors of their block.
PhisLead(g, bd, ins) ==
    \A b \in Blocks(g) : \A n \in 1..Len(bd[b]) :
        ins[bd[b][n]].op = "phi" =>
            /\ ins[bd[b][n]].inc = Preds(g, b)
            /\ \A m \in 1..(n - 1) : ins[bd[b][m]].op = "phi"

WellFormed(p) ==
    /\ WellTyped(p.inst)
    /\ PhisLead(p.cfg, p.body, p.inst)
    /\ DefBeforeUse(p.cfg, p.body, p.inst)

----------------------------------------------------------------------------
\* Driver: HoistAnticipatedExpressionsPass::run.

NoSets(g) == [b \in Blocks(g) |-> {}]

\* The state in which run() is entered on function p.
Start(p) ==
    /\ WellFormed(p)
    /\ cfg = p.cfg /\ body = p.body /\ inst = p.inst /\ asc = p.asc
    /\ body0 = p.body /\ inst0 = p.inst /\ order = PostOrder(p.cfg)
    /\ erased = {}
    /\ UseSets = NoSets(p.cfg) /\ DefSets = NoSets(p.cfg)
    /\ InSets = NoSets(p.cfg) /\ OutSets = NoSets(p.cfg)
    /\ pc = "analyse" /\ po = PostOrder(p.cfg) /\ bf = <<>>
    /\ status = "running"

InitGen ==
    \E g \in Shapes : \E k \in 0..MaxInstr :
      \E blk \in {f \in [1..k -> Blocks(g)] : \A i \in 1..(k - 1) : f[i] <= f[i + 1]} :
        \E x \in {f \in [1..k -> {-1} \cup 1..k] : \A i \in 1..k : f[i] < i} :
          \E r \in {-1} \cup 1..k : \E up \in BOOLEAN :
            Start(GenProgram(g, k, blk, x, r, up))

InitKind ==
    \E k \in 1..MaxKindInstr : \E cut \in 0..k : \E kind \in [1..k -> Kinds] :
      \E x \in {f \in [1..k -> {-1} \cup 1..k] : \A i \in 1..k : f[i] < i} :
        \E up \in BOOLEAN :
          Start(KindProgram(k, cut, kind, x, up))

InitDiamond ==
    \E ne \in 0..MaxJoinInstr : \E nj \in 0..MaxJoinInstr :
      \E st \in BOOLEAN : \E phi \in BOOLEAN :
        \E jx \in {f \in [1..nj -> BOOLEAN] : \A n \in 1..nj : f[n] => phi} :
          \E r \in 0..(nj + 1) : \E up \in BOOLEAN :
            Start(DiamondProgram(ne, st, phi, jx, r, up))

Init == InitGen \/ InitKind \/ InitDiamond

\* One iteration of "for (BasicBlock *BB : post_order(&F.getEntryBlock()))".
AnalyseBlock ==
    /\ pc = "analyse"
    /\ LET b   == Head(po)
           use == findUseSet(body, inst, b)
           def == findDefSet(body, inst, b)
           out == findOutSet(inst, InSets, asc, cfg[b])
           in  == findInSet(inst, use, def, out)
       IN  /\ UseSets' = [UseSets EXCEPT ![b] = use]
           /\ DefSets' = [DefSets EXCEPT ![b] = def]
           /\ OutSets' = [OutSets EXCEPT ![b] = out]
           /\ InSets'  = [InSets EXCEPT ![b] = in]
    /\ po' = Tail(po)
    /\ IF Tail(po) = <<>>
       THEN pc' = "hoist" /\ bf' = BreadthFirst(cfg, 1)
       ELSE pc' = "analyse" /\ bf' = bf
    /\ UNCHANGED <<cfg, body, inst, asc, erased, status, body0, inst0, order>>

\* hoistInstructions(BB, OutSets) returned false: the scan goes on.
HoistSkip ==
    /\ pc = "hoist" /\ bf # <<>>
    /\ ~HoistChanged(OutSets[Head(bf)])
    /\ bf' = Tail(bf)
    /\ UNCHANGED <<cfg, body, inst, asc, erased, UseSets, DefSets, InSets, OutSets,
                   pc, po, status, body0, inst0, order>>

\* hoistInstructions(BB, OutSets) returned true: break, and the while loop
\* starts the next round with fresh sets.
HoistBlock ==
    /\ pc = "hoist" /\ bf # <<>>
    /\ HoistChanged(OutSets[Head(bf)])
    /\ LET st == hoistInstructions(cfg, body, inst, asc, Head(bf), OutSets[Head(bf)])
       IN  /\ body' = st.body
           /\ inst' = st.inst
           /\ erased' = erased \cup st.del
    /\ UseSets' = NoSets(cfg) /\ DefSets' = NoSets(cfg)
    /\ InSets' = NoSets(cfg) /\ OutSets' = NoSets(cfg)
    /\ pc' = "analyse" /\ po' = PostOrder(cfg) /\ bf' = <<>>
    /\ UNCHANGED <<cfg, asc, status, body0, inst0, order>>

\* The status run() returns.
ReturnStatus == "modified"

\* The breadth-first scan ended with Changed = false: run() returns.
Return ==
    /\ pc = "hoist" /\ bf = <<>>
    /\ pc' = "done"
    /\ status' = ReturnStatus
    /\ UNCHANGED <<cfg, body, inst, asc, erased, UseSets, DefSets, InSets, OutSets,
                   po, bf, body0, inst0, order>>

Next == AnalyseBlock \/ HoistSkip \/ HoistBlock \/ Return

Spec == Init /\ [][Next]_vars

----------------------------------------------------------------------------
\* Notions the properties are stated with.

\* Blocks whose four sets have been computed in the current analysis round.
Visited == Range(order) \ Range(po)

\* Whether block s was visited before block b in the round's post-order walk.
VisitedBefore(s, b) ==
    PosOf(order, s) < PosOf(order, b)

\* In(s) as block b found it when b was visited.
InAt(b, s) == IF VisitedBefore(s, b) THEN InSets[s] ELSE {}

\* Whether set S holds a member of the equivalence class of instruction i.
HasRep(S, i) == \E j \in S : isIdenticalTo(inst, i, j)

Mutated == body # body0 \/ inst # inst0

RECURSIVE SolveAll(_, _, _, _, _, _, _)
\* The Out sets of one analysis round over the given graph.
SolveAll(g, bd, ins, up, in, out, walk) ==
    IF walk = <<>> THEN out
    ELSE LET b == Head(walk)
             o == findOutSet(ins, in, up, g[b])
             i == findInSet(ins, findUseSet(bd, ins, b), findDefSet(bd, ins, b), o)
         IN  SolveAll(g, bd, ins, up, [in EXCEPT ![b] = i], [out EXCEPT ![b] = o],
                      Tail(walk))

RecomputedOut == SolveAll(cfg, body, inst, asc, NoSets(cfg), NoSets(cfg), PostOrder(cfg))

----------------------------------------------------------------------------
\* C1: hoisting preserves def-before-use: in every state of the Driver (so
\* after every Hoister call and in the final state) every operand that is an
\* instruction result is defined before its use.
C1_DefBeforeUsePreserved == DefBeforeUse(cfg, body, inst)

\* How far the instructions still are from the entry, as the number of pairs
\* (instruction, block visited no earlier in post-order than the
\* instruction's block): a hoist moves an instruction to a block visited
\* later in post-order, or erases instructions.
Potential ==
    Cardinality({q \in Blocks(cfg) \X Blocks(cfg) \X (1..Len(inst)) :
                    /\ q[3] <= Len(body[q[1]])
                    /\ ~VisitedBefore(q[2], q[1])})

\* Steps left in the current round.
RoundLeft ==
    IF pc = "analyse" THEN Len(po) + Len(cfg) + 2
    ELSE IF pc = "hoist" THEN Len(bf) + 1
    ELSE 0

\* (Potential, RoundLeft) in the lexicographic order, as one natural number
\* (RoundLeft stays below 2 * Len(cfg) + 3).
Variant == Potential * (2 * Len(cfg) + 3) + RoundLeft

\* C2: the Driver always terminates: until it has converged it can take a
\* step, and every step strictly decreases the natural number Variant, so no
\* run goes on forever (a Hoister call on a non-empty Out(B) always lowers
\* Potential, also when it only reuses an instance already in B).
C2_Terminates ==
    /\ [](pc # "done" => (pc = "analyse" /\ po # <<>>) \/ pc = "hoist")
    /\ [][Variant' < Variant]_vars

C2_Witness == pc = "done" /\ Cardinality(erased) >= 2 /\ cfg \in {Loop, SelfLoop}

\* C3: no dangling uses: no remaining instruction has an operand that refers
\* to an erased instruction.
C3_NoDanglingUses ==
    \A u \in Live(body) : \A v \in Range(inst[u].ops) : IsInst(v) => v \notin erased

C3_Witness ==
    /\ Cardinality(erased) >= 2
    /\ \E u \in Live(body) : inst[u].ops # inst0[u].ops

\* C5: idempotence: in the Converged state the Out set of every block is
\* empty when the sets are recomputed from the final graph, so a second run
\* relocates, redirects and deletes nothing.
C5_Idempotent ==
    pc = "done" => \A b \in Blocks(cfg) : RecomputedOut[b] = {}

C5_Witness == pc = "done" /\ Mutated

\* C7: the returned status is "modified" exactly when a relocation, use
\* redirection or deletion happened during the run.
C7_StatusDistinguishes ==
    pc = "done" => (status = "modified" <=> Mutated)

\* C8: Out(B) is the equivalence-aware intersection of the successors' In
\* sets as B found them: a class has a representative in Out(B) iff B has
\* successors and every successor's In set holds a member of the class.
C8_OutIsIntersection ==
    \A b \in Visited : \A i \in Live(body) :
        HasRep(OutSets[b], i)
          <=> (cfg[b] # <<>> /\ \A s \in Range(cfg[b]) : HasRep(InAt(b, s), i))

\* C9: In(B) = Use(B) union the members of Out(B) not equivalent to any
\* member of Def(B).
C9_InIsUsePlusFilteredOut ==
    \A b \in Visited :
        InSets[b] = UseSets[b] \cup
                      {i \in OutSets[b] : \A d \in DefSets[b] : ~isIdenticalTo(inst, i, d)}

\* C9 as amended: In(B) holds the members of Use(B) and of Out(B) that are
\* not equivalent to any member of Def(B), and nothing else.
C9_InIsFilteredUseAndOut ==
    \A b \in Visited :
        InSets[b] = {i \in UseSets[b] \cup OutSets[b] :
                        \A d \in DefSets[b] : ~isIdenticalTo(inst, i, d)}

C9_Witness ==
    \E b \in Visited :
        /\ \E i \in UseSets[b] : i \notin InSets[b]
        /\ \E i \in OutSets[b] : i \in InSets[b]

\* C10: Def(B) is the set of instructions of B whose result is used by an
\* instruction of B (the consumed definitions).
C10_DefIsConsumedDefinitions ==
    \A b \in Visited :
        DefSets[b] = {d \in Range(body[b]) :
                        \E u \in Range(body[b]) : d \in Range(inst[u].ops)}

\* C10 as amended: Def(B) is the set of instructions of B that use the result
\* of an instruction of B (the consumers).
C10_DefIsLocalConsumers ==
    \A b \in Visited :
        DefSets[b] = {u \in Range(body[b]) :
                        \E k \in 1..Len(inst[u].ops) : inst[u].ops[k] \in Range(body[b])}

C10_Witness ==
    \E b \in Visited : \E u \in DefSets[b] :
        /\ \A w \in Range(body[b]) : u \notin Range(inst[w].ops)
        /\ \E d \in Range(body[b]) : d \notin DefSets[b] /\ d \in Range(inst[u].ops)

\* The instructions the Purity Classifier must keep out of hoisting.
Disqualified(i) ==
    \/ i.op \in {"alloca", "load", "store", "br", "ret", "phi"}
    \/ /\ i.op = "call"
       /\ LET c == Callee(i.callee)
          IN  ~(c.direct /\ c.lib /\ ~c.retPtr /\ ~c.argPtr)

ScenarioA ==
    /\ cfg = Diamond
    /\ LET relL == {i \in Range(body0[2]) : ~Disqualified(inst0[i])}
           relR == {i \in Range(body0[3]) : ~Disqualified(inst0[i])}
       IN  /\ Cardinality(relL) = 1 /\ Cardinality(relR) = 1
           /\ \A i \in relL : \A j \in relR :
                 /\ inst0[i].op = inst0[j].op /\ inst0[i].ops = inst0[j].ops
                 /\ Len(inst0[i].ops) = 2
                 /\ \A v \in Range(inst0[i].ops) : ~IsInst(v)

\* The two original occurrences of Scenario A.
Originals ==
    {i \in Range(body0[2]) \cup Range(body0[3]) : ~Disqualified(inst0[i])}

\* The instances of the operation of Scenario A now in the function.
Instances ==
    {i \in Live(body) : \E o \in Originals :
        inst[i].op = inst0[o].op /\ inst[i].ops = inst0[o].ops}

\* C6: Scenario A: when the core finishes exactly one instance of the
\* operation exists, it sits in the entry block before the terminator, L and
\* R hold none, and every use of either original refers to the survivor.
C6_DiamondHoisted ==
    (pc = "done" /\ ScenarioA) =>
        /\ Cardinality(Instances) = 1
        /\ \A s \in Instances :
              /\ s \in Range(body[1])
              /\ PosOf(body[1], s) < Len(body[1])
              /\ isTerminator(inst[body[1][Len(body[1])]])
              /\ \A u \in Live(body) : \A k \in 1..Len(inst0[u].ops) :
                    inst0[u].ops[k] \in Originals => inst[u].ops[k] = s
        /\ Instances \cap (Range(body[2]) \cup Range(body[3])) = {}

C6_Witness ==
    /\ pc = "done" /\ ScenarioA
    /\ \E u \in Live(body) : inst[u].op = "phi" /\ inst[u].ops # inst0[u].ops
    /\ \E u \in Live(body) : inst[u].op = "store" /\ inst[u].ops # inst0[u].ops

====
